---- MODULE Spec2Model ----
(***************************************************************************)
(* State-machine model of RAGIndex (src/backend/app/rag.py): the vector    *)
(* index, its metadata dictionary, the retained TF-IDF corpus and the      *)
(* artifacts written under INDEX_PATH.                                     *)
(*                                                                         *)
(* Abstractions.  A text is one of a few strings; the tokenizer of         *)
(* TfidfVectorizer is the table Tokens.  A vector row is represented by    *)
(* the text it was embedded from, a matrix by its rows and its column      *)
(* count.  A Python dict is an insertion-ordered sequence of key/value     *)
(* entries; a metadata dict is a function from field names to strings.     *)
(***************************************************************************)
EXTENDS Integers, Sequences, FiniteSets, TLC

VARIABLES
    use_tfidf,      \* self._use_tfidf, fixed by __init__
    has_faiss,      \* module flag _HAS_FAISS
    model,          \* self.model: the dense embedding model, or None
    id_to_meta,     \* self.id_to_meta: ordered dict, keys "0","1",.. and "dim"
    texts,          \* self.texts: the retained corpus (TF-IDF path)
    tfidf,          \* self._tfidf: fitted vocabulary, or not fitted
    index,          \* self.index: the faiss index, or None
    use_faiss,      \* self._use_faiss
    embeddings,     \* self.embeddings: the matrix, or None
    nn,             \* self.nn: the fitted NearestNeighbors, or None
    meta_file,      \* meta.json
    index_file,     \* faiss.index
    embeddings_file,\* embeddings.npy
    texts_file,     \* texts.json
    last,           \* the last call and its outcome
    crashes,        \* how often the process died inside add_texts or a rebuild
    has_sente,      \* module flag _HAS_SENTE
    fast_mode,      \* RAG_FAST is one of "1", "true", "True"
    instance,       \* INDEX = RAGIndex(): "none" before, then "ready" or "raised"
    buckets,        \* rate_limit._buckets: ip -> (tokens, last), or None
    now,            \* time.monotonic()
    store,          \* MEMORY._store: session_id -> deque of (user, assistant)
    chunker,        \* the locals of one chunk_text call
    stream          \* the locals of one stream_synthesize_answer call

mem  == <<id_to_meta, texts, tfidf, index, use_faiss, embeddings, nn>>
disk == <<meta_file, index_file, embeddings_file, texts_file>>
conf == <<use_tfidf, has_faiss, model>>
\* the state outside the index object: the process environment, the rate
\* limiter, the chat memory and the helper calls of the routes
ext  == <<has_sente, fast_mode, instance, buckets, now, store, chunker,
          stream>>
env     == <<has_sente, fast_mode>>
limiter == <<buckets, now>>
vars == <<use_tfidf, has_faiss, model, id_to_meta, texts, tfidf, index, use_faiss,
          embeddings, nn, meta_file, index_file, embeddings_file, texts_file, last,
          crashes, has_sente, fast_mode, instance, buckets, now, store,
          chunker, stream>>

----------------------------------------------------------------------------
(* Bounds of the model *)

\* longest corpus / largest number of records explored
MaxTexts == 2
\* most crashes between artifact writes in one run
MaxCrashes == 1
\* the batch sizes handed to one add_texts call
BatchSizes == {0, 1, 2}

\* the values of k handed to query
Ks == {1, 2}

----------------------------------------------------------------------------
(* Values *)

\* Python's None; also an artifact that does not exist on disk
None == [None |-> TRUE]

\* the texts callers ingest and query with
Texts == {"", "cat", "dog"}

\* the source labels callers ask remove_by_source to delete
SourceArgs == {"s1", "s2"}

\* the metas callers hand in: the default of /ingest, a source alone as in the
\* smoke test, and a source with the text as /upload builds it
CallerMetas ==
    { [f \in {} |-> ""], [source |-> "s1"], [source |-> "s2", text |-> "cat"] }

\* str(i) for the ids the model reaches
StrTab == <<"0", "1", "2", "3", "4", "5", "6", "7", "8", "9", "10", "11">>

Str(i) == StrTab[i + 1]

\* int(k) for a key written by Str
ToInt(k) == CHOOSE i \in 0..(Len(StrTab) - 1) : StrTab[i + 1] = k

Min(a, b) == IF a < b THEN a ELSE b

\* json.dump(x, f): the document written to a .json artifact
JsonDump(x) == [json |-> x]

\* json.load(f) of a document written by json.dump
JsonLoad(doc) == doc.json

----------------------------------------------------------------------------
(* Python dict, insertion ordered *)

Entry(k, v) == [k |-> k, v |-> v]

Keys(d) == { d[i].k : i \in 1..Len(d) }

Has(d, k) == k \in Keys(d)

Get(d, k) == d[CHOOSE i \in 1..Len(d) : d[i].k = k].v

\* d[k] = v: an existing key keeps its position, a new key goes last
Put(d, k, v) ==
    IF Has(d, k)
    THEN [i \in 1..Len(d) |-> IF d[i].k = k THEN Entry(k, v) ELSE d[i]]
    ELSE Append(d, Entry(k, v))

\* meta with field f set to x (meta[f] = x)
SetField(m, f, x) ==
    [g \in DOMAIN m \cup {f} |-> IF g = f THEN x ELSE m[g]]

\* t = m.get('text'); if t:
HasText(m) == "text" \in DOMAIN m /\ m["text"] # ""

\* every entry of d taken for a record, the sentinel too
RecordEntriesWithDim(d) == d

\* the entries of d that are records, in dict order (k != 'dim')
RecordEntries(d) == SelectSeq(d, LAMBDA e : e.k # "dim")

\* count(): len([k for k in id_to_meta.keys() if k != 'dim'])
Count(d) == Len(RecordEntries(d))

\* the integer ids of the stored records
Ids(d) == { ToInt(e.k) : e \in { d[i] : i \in { j \in 1..Len(d) : d[j].k # "dim" } } }

----------------------------------------------------------------------------
(* Embedding providers *)

\* output dimension of the dense model all-MiniLM-L6-v2
DenseDim == 384

Matrix(rows, dim) == [rows |-> rows, dim |-> dim]

\* token_pattern of TfidfVectorizer: words of two or more characters
Tokens(t) ==
    CASE t = "cat" -> {"cat"}
      [] t = "dog" -> {"dog"}
      [] OTHER     -> {}

\* the vocabulary TfidfVectorizer.fit learns from a corpus
Vocabulary(corpus) == UNION { Tokens(corpus[i]) : i \in 1..Len(corpus) }

\* fit / fit_transform raise ValueError("empty vocabulary") on such a corpus
FitFails(corpus) == Vocabulary(corpus) = {}

\* self._tfidf.fit_transform(corpus).toarray(): one row per text of the corpus
FitTransform(corpus) == Matrix(corpus, Cardinality(Vocabulary(corpus)))

NotFitted == [fitted |-> FALSE, vocabulary |-> {}]

Fitted(corpus) == [fitted |-> TRUE, vocabulary |-> Vocabulary(corpus)]

\* self.model.encode(batch, convert_to_numpy=True): one row per text
Encode(batch) == Matrix(batch, DenseDim)

\* the pairs of different texts
Pairs == { p \in SUBSET Texts : Cardinality(p) = 2 }

\* what the model knows of a dense embedding model: the order of the distances
\* between the vectors of different texts, as the rank of each pair
Geometries ==
    { g \in [Pairs -> 1..Cardinality(Pairs)] :
        \A x \in Pairs : \A y \in Pairs : g[x] = g[y] => x = y }

\* the tokens of the model in sorted order
SortedTokens == <<"cat", "dog">>

\* the feature index of a token, from 1: vocabulary_ numbers the sorted tokens
Column(token, vocabulary) ==
    LET at == CHOOSE i \in 1..Len(SortedTokens) : SortedTokens[i] = token
    IN  Cardinality({ i \in 1..at : SortedTokens[i] \in vocabulary })

\* the one feature that is not zero in the TF-IDF vector of t under a
\* vocabulary, or 0 for the zero vector: a text holds at most one token
Feature(t, vocabulary) ==
    IF Tokens(t) \cap vocabulary = {} THEN 0
    ELSE Column(CHOOSE u \in Tokens(t) : TRUE, vocabulary)

\* embeddings.shape[1] exists only for a two-dimensional result; encode of an
\* empty batch returns an array of shape (0,)
HasShape1(batch) == Len(batch) > 0

----------------------------------------------------------------------------
(* The state outside the index object, at rest *)

\* the client addresses the rate limiter keys its buckets by
IPs == {"10.0.0.1", "10.0.0.2"}

\* the session ids of the chat memory; "" is no session
Sessions == {"", "s", "t"}

\* an empty dict
EmptyDict == [key \in {} |-> None]

\* no chunk_text call is running
NoChunker ==
    [pc |-> "idle", tokens |-> <<>>, chunk_size |-> 0, overlap |-> 0, i |-> 0,
     chunks |-> <<>>]

\* no stream_synthesize_answer call is running
NoStream == [pc |-> "idle", deltas |-> <<>>, pending |-> <<>>, yielded |-> <<>>]

\* no bucket, no session, no helper call
Idle ==
    /\ buckets = EmptyDict
    /\ now = 0
    /\ store = EmptyDict
    /\ chunker = NoChunker
    /\ stream = NoStream

\* an index with nothing ingested and nothing persisted
EmptyIndex ==
    /\ id_to_meta = <<>>
    /\ texts = <<>>
    /\ tfidf = NotFitted
    /\ index = None
    /\ use_faiss = FALSE
    /\ embeddings = None
    /\ nn = None
    /\ meta_file = None
    /\ index_file = None
    /\ embeddings_file = None
    /\ texts_file = None
    /\ crashes = 0
    /\ model = None

----------------------------------------------------------------------------
(* Initial state: RAGIndex() with no persisted artifacts *)

\* __init__ / _load on an empty INDEX_PATH.  The dense model goes with either
\* backend; TF-IDF is importable only when faiss is not.
Init ==
    /\ use_tfidf \in BOOLEAN
    /\ has_faiss \in BOOLEAN
    /\ ~(use_tfidf /\ has_faiss)
    /\ model \in IF use_tfidf THEN {None} ELSE Geometries
    /\ id_to_meta = <<>>
    /\ texts = <<>>
    /\ tfidf = NotFitted
    /\ index = None
    /\ use_faiss = FALSE
    /\ embeddings = None
    /\ nn = None
    /\ meta_file = None
    /\ index_file = None
    /\ embeddings_file = None
    /\ texts_file = None
    /\ last = [op |-> "init", ok |-> TRUE]
    /\ crashes = 0
    /\ has_sente = ~use_tfidf
    /\ fast_mode = FALSE
    /\ instance = "ready"
    /\ Idle

----------------------------------------------------------------------------
(* add_texts *)

\* StoredMeta reading the corpus one position too low
StoredMetaOffByOne(m, corpus, pos, tfidfMode) ==
    IF tfidfMode
    THEN IF pos \in 1..Len(corpus) /\ corpus[pos] # ""
         THEN SetField(m, "text", corpus[pos])
         ELSE m
    ELSE m

\* the meta stored for caller meta m whose text sits at 0-based position pos of
\* the corpus (TF-IDF), or whose text is whatever the caller put in m (dense)
StoredMeta(m, corpus, pos, tfidfMode) ==
    IF tfidfMode
    THEN IF pos + 1 \in 1..Len(corpus) /\ corpus[pos + 1] # ""
         THEN SetField(m, "text", corpus[pos + 1])
         ELSE m
    ELSE m

\* for i, m in enumerate(metas): self.id_to_meta[str(start_id + i)] = meta
RECURSIVE AssignMetas(_, _, _, _, _, _)
AssignMetas(d, start, metas, corpus, tfidfMode, i) ==
    IF i >= Len(metas) THEN d
    ELSE AssignMetas(Put(d, Str(start + i),
                         StoredMeta(metas[i + 1], corpus, start + i, tfidfMode)),
                     start, metas, corpus, tfidfMode, i + 1)

\* start_id on the dense path: the number of stored records
DenseStartId(d) == Count(d)

\* start_id on the TF-IDF path: the length of the corpus before the append
TfidfStartId(existing_texts) == Len(existing_texts)

\* self.index.add(embeddings), after _ensure_faiss(dim)
FaissAdd(idx, emb) ==
    IF idx = None THEN emb ELSE Matrix(idx.rows \o emb.rows, idx.dim)

\* the sklearn branch of add_texts on the dense path: self.embeddings = embeddings
DenseSklearnEmbeddings(old, emb) == emb

\* self.nn = NearestNeighbors(...) before self.nn.fit(self.embeddings)
Unfitted == [unfitted |-> TRUE]

\* _build_sklearn: NearestNeighbors fitted on self.embeddings, or None
BuildSklearn(emb) ==
    IF emb = None \/ Len(emb.rows) = 0 THEN None ELSE emb

AddRet(batch, metas, ok, err) ==
    [op |-> "add_texts", texts |-> batch, metas |-> metas, ok |-> ok, err |-> err]

\* len(texts) == 0: return
AddNothing(batch, metas) ==
    /\ Len(batch) = 0
    /\ last' = AddRet(batch, metas, TRUE, "")
    /\ UNCHANGED <<conf, ext, crashes, mem, disk>>

AddDense(batch, metas) ==
    /\ Len(batch) > 0
    /\ ~use_tfidf
    /\ LET emb == Encode(batch)
           d1  == AssignMetas(id_to_meta, DenseStartId(id_to_meta), metas,
                              texts, FALSE, 0)
           d2  == Put(d1, "dim", emb.dim)
       IN  /\ IF has_faiss
              THEN /\ index' = FaissAdd(index, emb)
                   /\ use_faiss' = TRUE
                   /\ index_file' = index'
                   /\ UNCHANGED <<embeddings, nn, embeddings_file, texts_file>>
              ELSE /\ embeddings' = DenseSklearnEmbeddings(embeddings, emb)
                   /\ embeddings_file' = embeddings'
                   /\ texts_file' = JsonDump(texts)
                   /\ nn' = BuildSklearn(embeddings')
                   /\ UNCHANGED <<index, use_faiss, index_file>>
           /\ id_to_meta' = d2
           /\ meta_file' = JsonDump(d2)
    /\ last' = AddRet(batch, metas, TRUE, "")
    /\ UNCHANGED <<conf, ext, crashes, texts, tfidf>>

AddTfidf(batch, metas) ==
    /\ Len(batch) > 0
    /\ use_tfidf
    /\ LET start_id == TfidfStartId(texts)
           corpus   == texts \o batch
       IN  /\ texts' = corpus
           /\ IF FitFails(corpus)
              THEN \* fit_transform raises after self.texts and self._tfidf were set
                   /\ tfidf' = NotFitted
                   /\ last' = AddRet(batch, metas, FALSE, "ValueError")
                   /\ UNCHANGED <<id_to_meta, index, use_faiss, embeddings, nn, disk>>
              ELSE LET emb == FitTransform(corpus)
                       d1  == AssignMetas(id_to_meta, start_id, metas, corpus, TRUE, 0)
                       d2  == Put(d1, "dim", emb.dim)
                   IN  /\ tfidf' = Fitted(corpus)
                       /\ embeddings' = emb
                       /\ embeddings_file' = emb
                       /\ texts_file' = JsonDump(corpus)
                       /\ nn' = BuildSklearn(emb)
                       /\ id_to_meta' = d2
                       /\ meta_file' = JsonDump(d2)
                       /\ last' = AddRet(batch, metas, TRUE, "")
                       /\ UNCHANGED <<index, use_faiss, index_file>>
    /\ UNCHANGED <<conf, ext, crashes>>

\* the batches callers hand in: texts and metas of the same length
Batches == UNION { [1..n -> Texts] : n \in BatchSizes }

MetasFor(batch) == [1..Len(batch) -> CallerMetas]

AddTexts ==
    \E batch \in Batches :
        /\ Len(batch) <= MaxTexts - (IF use_tfidf THEN Len(texts) ELSE Count(id_to_meta))
        /\ \E metas \in MetasFor(batch) :
                \/ AddNothing(batch, metas)
                \/ AddDense(batch, metas)
                \/ AddTfidf(batch, metas)

----------------------------------------------------------------------------
(* _rebuild_from_metas, remove_by_ids, remove_by_source *)

\* the values of a sequence of dict entries
Values(es) == [i \in 1..Len(es) |-> es[i].v]

\* remove_by_ids comparing idx + 1 with the ids
KeptByIdsShifted(d, ids) ==
    Values(SelectSeq(RecordEntries(d), LAMBDA e : (ToInt(e.k) + 1) \notin ids))

\* remove_by_ids: the metas kept, in dict order
KeptByIds(d, ids) ==
    Values(SelectSeq(RecordEntries(d), LAMBDA e : ToInt(e.k) \notin ids))

\* remove_by_source dropping every record whose source is not None
KeptBySourceAnySource(d, source) ==
    Values(SelectSeq(RecordEntries(d), LAMBDA e : ~("source" \in DOMAIN e.v)))

\* remove_by_source: the metas kept, in dict order
KeptBySource(d, source) ==
    Values(SelectSeq(RecordEntries(d),
                     LAMBDA e : ~("source" \in DOMAIN e.v /\ e.v["source"] = source)))

\* before: the records counted by the loop of remove_by_ids / remove_by_source
Before(d) == Len(RecordEntries(d))

\* new_id_to_meta: the kept metas under the keys "0".."K-1", then 'dim'
NewIdToMeta(kept_metas, dim) ==
    Append([i \in 1..Len(kept_metas) |-> Entry(Str(i - 1), kept_metas[i])],
           Entry("dim", dim))

\* texts: the text of every kept meta that has one (t = m.get('text'); if t:)
CollectedTexts(kept_metas) ==
    LET with == SelectSeq(kept_metas, HasText)
    IN  [i \in 1..Len(with) |-> with[i]["text"]]

\* the check written as len(texts) == 0
MissingTextNone(kept_metas) ==
    Len(kept_metas) > 0 /\ Len(CollectedTexts(kept_metas)) = 0

\* len(texts) != len(kept_metas): some kept meta has no text
MissingText(kept_metas) == Len(CollectedTexts(kept_metas)) # Len(kept_metas)

\* the corpus rebuilt from the metas that have a text only
TfidfTextsSkipping(kept_metas) == CollectedTexts(kept_metas)

\* self.texts = [m.get('text', '') for m in kept_metas]
TfidfTexts(kept_metas) ==
    [i \in 1..Len(kept_metas) |->
        IF "text" \in DOMAIN kept_metas[i] THEN kept_metas[i]["text"] ELSE ""]

\* the old ids of the records the loop of remove_by_ids / remove_by_source
\* appended to kept, in the order it appended them
KeptKeys(d, op, arg) ==
    LET es == SelectSeq(RecordEntries(d),
                        LAMBDA e : IF op = "remove_by_ids"
                                   THEN ToInt(e.k) \notin arg
                                   ELSE ~("source" \in DOMAIN e.v /\ e.v["source"] = arg))
    IN  [i \in 1..Len(es) |-> ToInt(es[i].k)]

\* the outcome of a delete, with the ids it kept
DelRet(op, arg, ok, err, ret) ==
    [op |-> op, ok |-> ok, err |-> err, ret |-> ret,
     kept |-> KeptKeys(id_to_meta, op, arg)]

\* the dense path of _rebuild_from_metas (lines 201-229)
RebuildDense(kept_metas, before, op, arg) ==
    IF MissingText(kept_metas)
    THEN \* raise ValueError("Cannot rebuild: missing text in metas ...")
         /\ last' = DelRet(op, arg, FALSE, "ValueError", 0)
         /\ UNCHANGED <<conf, ext, crashes, mem, disk>>
    ELSE LET ts == CollectedTexts(kept_metas)
         IN  IF ~HasShape1(ts)
             THEN \* dim = embeddings.shape[1] raises IndexError
                  /\ last' = DelRet(op, arg, FALSE, "IndexError", 0)
                  /\ UNCHANGED <<conf, ext, crashes, mem, disk>>
             ELSE LET emb == Encode(ts)
                      d   == NewIdToMeta(kept_metas, emb.dim)
                  IN  /\ IF has_faiss
                         THEN /\ index' = emb
                              /\ use_faiss' = TRUE
                              /\ index_file' = emb
                              /\ embeddings' = None
                              /\ UNCHANGED <<nn, embeddings_file>>
                         ELSE /\ embeddings' = emb
                              /\ embeddings_file' = emb
                              /\ nn' = BuildSklearn(emb)
                              /\ UNCHANGED <<index, use_faiss, index_file>>
                      /\ texts' = <<>>
                      /\ texts_file' = None
                      /\ id_to_meta' = d
                      /\ meta_file' = JsonDump(d)
                      /\ last' = DelRet(op, arg, TRUE, "", before - Len(kept_metas))
                      /\ UNCHANGED <<conf, ext, crashes, tfidf>>

\* the TF-IDF path of _rebuild_from_metas (lines 231-245)
RebuildTfidf(kept_metas, before, op, arg) ==
    LET corpus == TfidfTexts(kept_metas)
    IN  /\ texts' = corpus
        /\ IF Len(corpus) > 0 /\ FitFails(corpus)
           THEN \* fit_transform raises after self.texts and self._tfidf were set
                /\ tfidf' = NotFitted
                /\ last' = DelRet(op, arg, FALSE, "ValueError", 0)
                /\ UNCHANGED <<id_to_meta, index, use_faiss, embeddings, nn, disk>>
           ELSE LET emb == IF Len(corpus) > 0 THEN FitTransform(corpus)
                                              ELSE Matrix(<<>>, 0)
                    d   == NewIdToMeta(kept_metas, emb.dim)
                IN  /\ tfidf' = IF Len(corpus) > 0 THEN Fitted(corpus) ELSE NotFitted
                    /\ embeddings' = emb
                    /\ embeddings_file' = emb
                    /\ texts_file' = JsonDump(corpus)
                    /\ nn' = BuildSklearn(emb)
                    /\ id_to_meta' = d
                    /\ meta_file' = JsonDump(d)
                    /\ last' = DelRet(op, arg, TRUE, "", before - Len(kept_metas))
                    /\ UNCHANGED <<index, use_faiss, index_file>>
        /\ UNCHANGED <<conf, ext, crashes>>

RebuildFromMetas(kept_metas, before, op, arg) ==
    IF use_tfidf THEN RebuildTfidf(kept_metas, before, op, arg)
                 ELSE RebuildDense(kept_metas, before, op, arg)

\* the id lists callers ask remove_by_ids to delete: one id, as /delete does, or
\* all of 0..MaxTexts; the id MaxTexts itself is never stored
IdArgs == { {i} : i \in 0..MaxTexts } \cup { 0..MaxTexts }

RemoveByIdsOf(ids) ==
    RebuildFromMetas(KeptByIds(id_to_meta, ids), Before(id_to_meta),
                     "remove_by_ids", ids)

RemoveBySourceOf(source) ==
    RebuildFromMetas(KeptBySource(id_to_meta, source), Before(id_to_meta),
                     "remove_by_source", source)

RemoveByIds == \E ids \in IdArgs : RemoveByIdsOf(ids)

RemoveBySource == \E source \in SourceArgs : RemoveBySourceOf(source)

----------------------------------------------------------------------------
(* query *)

\* Distance of 0-based row r of a matrix from the query vector.  TF-IDF: the
\* query is transformed under the vocabulary of the vectorizer, the rows were
\* under the vocabulary of the corpus they are the fit_transform of; the cosine
\* distance compares them feature index by feature index, and is 0 for two
\* vectors with the same non-zero feature, 1 otherwise.  Dense model: 0 for
\* the same text, else the rank self.model gives the pair of texts.
Dist(q, rows, r, tfidfMode, vocabulary) ==
    IF tfidfMode
    THEN IF /\ Feature(q, vocabulary) # 0
            /\ Feature(q, vocabulary) = Feature(rows[r + 1], Vocabulary(rows))
         THEN 0 ELSE 1
    ELSE IF q = rows[r + 1] THEN 0 ELSE model[{q, rows[r + 1]}]

\* the largest distance Dist gives
MaxDist == Cardinality(Pairs)

\* the rows of all that are at distance d or more, nearest first, ties in row order
RECURSIVE NearestFrom(_, _, _, _, _, _)
NearestFrom(d, all, rows, q, tfidfMode, vocabulary) ==
    IF d > MaxDist THEN <<>>
    ELSE SelectSeq(all, LAMBDA r : Dist(q, rows, r, tfidfMode, vocabulary) = d)
         \o NearestFrom(d + 1, all, rows, q, tfidfMode, vocabulary)

\* the 0-based rows of a matrix, nearest first, ties in row order
Nearest(rows, q, tfidfMode, vocabulary) ==
    NearestFrom(0, [i \in 1..Len(rows) |-> i - 1], rows, q, tfidfMode, vocabulary)

\* index.search(emb, k) without the -1 padding, nn.kneighbors(emb, n): the n nearest
Search(rows, q, n, tfidfMode, vocabulary) ==
    SubSeq(Nearest(rows, q, tfidfMode, vocabulary), 1, Min(n, Len(rows)))

Hit(score, meta) == [score |-> score, meta |-> meta]

\* faiss branch: self.id_to_meta.get(str(idx)) or self.id_to_meta.get(idx);
\* an empty dict is falsy and no key is an int, so it comes out as None
FaissMeta(d, row) ==
    IF Has(d, Str(row)) /\ DOMAIN Get(d, Str(row)) # {} THEN Get(d, Str(row)) ELSE None

\* sklearn branch: self.id_to_meta.get(str(idx))
SklearnMeta(d, row) ==
    IF Has(d, Str(row)) THEN Get(d, Str(row)) ELSE None

\* the sklearn branch without its guard
NothingToSearchUnguarded(emb, fitted_nn) == FALSE

\* sklearn branch: self.embeddings is None or getattr(self, 'nn', None) is None
NothingToSearch(emb, fitted_nn) == emb = None \/ fitted_nn = None

\* the vectorizer query uses: fitted lazily when it has no vocabulary_
QueryTfidf == IF tfidf.fitted \/ FitFails(texts) THEN tfidf ELSE Fitted(texts)

\* the list query(text, k) returns, or the error it raises
QueryOutcome(q, k) ==
    LET vec  == QueryTfidf
        voc  == vec.vocabulary
        qdim == IF use_tfidf THEN Cardinality(voc) ELSE DenseDim
        Ok(ret)  == [ok |-> TRUE, err |-> "", ret |-> ret]
        Err(err) == [ok |-> FALSE, err |-> err, ret |-> <<>>]
    IN  IF use_tfidf /\ Len(texts) = 0 THEN Ok(<<>>)
        ELSE IF use_tfidf /\ ~vec.fitted THEN Ok(<<>>)
        ELSE IF use_faiss /\ index # None
        THEN IF index.dim # qdim THEN Err("AssertionError")
             ELSE LET hits == Search(index.rows, q, k, use_tfidf, voc)
                  IN  Ok([j \in 1..Len(hits) |->
                            Hit(Dist(q, index.rows, hits[j], use_tfidf, voc),
                                FaissMeta(id_to_meta, hits[j]))])
        ELSE IF NothingToSearch(embeddings, nn) THEN Ok(<<>>)
        ELSE IF embeddings = None \/ nn = None THEN Err("AttributeError")
        ELSE IF nn = Unfitted THEN Err("NotFittedError")
        ELSE IF nn.dim # qdim THEN Err("ValueError")
        ELSE IF \/ Min(k, Len(embeddings.rows)) < 1
                \/ Min(k, Len(embeddings.rows)) > Len(nn.rows) THEN Err("ValueError")
        ELSE LET hits == Search(nn.rows, q, Min(k, Len(embeddings.rows)),
                                use_tfidf, voc)
             IN  Ok([j \in 1..Len(hits) |->
                       Hit(Dist(q, nn.rows, hits[j], use_tfidf, voc),
                           SklearnMeta(id_to_meta, hits[j]))])

QueryResult(q, k) == QueryOutcome(q, k).ret

\* what query hands back to its caller, recorded with the call
QueryRet(q, k, out) ==
    [op |-> "query", q |-> q, k |-> k, ok |-> out.ok, err |-> out.err, ret |-> out.ret]

\* the records of d that are among the hits, each with the score of its hit
\* written into it (meta["score"] = float(dist) on the stored dict)
ScoredInPlace(d, hits) ==
    [i \in 1..Len(d) |->
        IF d[i].k # "dim" /\ \E j \in 1..Len(hits) : hits[j].meta = d[i].v
        THEN Entry(d[i].k,
                   SetField(d[i].v, "score",
                            hits[CHOOSE j \in 1..Len(hits) : hits[j].meta = d[i].v].score))
        ELSE d[i]]

\* query writing the score of a hit into the stored record it returns
QueryScoringInPlace ==
    \E q \in Texts : \E k \in Ks :
        LET out == QueryOutcome(q, k)
        IN  /\ tfidf' = IF use_tfidf /\ Len(texts) > 0 THEN QueryTfidf ELSE tfidf
            /\ id_to_meta' = ScoredInPlace(id_to_meta, out.ret)
            /\ last' = QueryRet(q, k, out)
            /\ UNCHANGED <<conf, ext, crashes, texts, index, use_faiss, embeddings,
                           nn, disk>>

\* query(text, k): the one attribute it may assign is the vectorizer, fitted
\* on self.texts when it has no vocabulary_ (lines 290-294)
Query ==
    \E q \in Texts : \E k \in Ks :
        LET out == QueryOutcome(q, k)
        IN  /\ tfidf' = IF use_tfidf /\ Len(texts) > 0 THEN QueryTfidf ELSE tfidf
            /\ last' = QueryRet(q, k, out)
            /\ UNCHANGED <<conf, ext, crashes, id_to_meta, texts, index, use_faiss, embeddings,
                           nn, disk>>

Next ==
    \/ AddTexts
    \/ RemoveByIds
    \/ RemoveBySource
    \/ Query

Spec == Init /\ [][Next]_vars

----------------------------------------------------------------------------
(* Longer runs of ingests and deletes.  An ingest that raises in fit_transform
   has already lengthened self.texts, and a delete that raises there has
   already cut it to the kept records: the next ingest then stores its records
   under keys that lie beyond, or below, the keys id_to_meta holds, and the
   order of the keys in the dict is no longer the order of the ids. *)

\* the longest corpus of these runs
MaxOrder == 4

\* the texts of one ingest: one text, or a page without a word before a page
\* with words
OrderBatches == { <<t>> : t \in Texts } \cup { <<"", "cat">> }

\* the sources the ingested records carry
OrderMetas == { m \in CallerMetas : "source" \in DOMAIN m }

\* the ids /delete is asked to remove, one a call; the id MaxOrder is never stored
OrderIds == { {i} : i \in 0..MaxOrder }

\* the sources /delete is asked to remove; no record carries "zzz"
OrderSources == SourceArgs \cup {"zzz"}

AddTextsInOrder ==
    \E batch \in OrderBatches :
        /\ Len(batch) <= MaxOrder - (IF use_tfidf THEN Len(texts) ELSE Count(id_to_meta))
        /\ \E metas \in [1..Len(batch) -> OrderMetas] :
                \/ AddDense(batch, metas)
                \/ AddTfidf(batch, metas)

RemoveByIdsInOrder == \E ids \in OrderIds : RemoveByIdsOf(ids)

RemoveBySourceInOrder == \E source \in OrderSources : RemoveBySourceOf(source)

NextOrder ==
    \/ AddTextsInOrder
    \/ RemoveByIdsInOrder
    \/ RemoveBySourceInOrder

\* the dense model of these runs: no query is made, one geometry stands for all
OrderGeometry == CHOOSE g \in Geometries : TRUE

InitOrder == Init /\ (use_tfidf \/ model = OrderGeometry)

SpecOrder == InitOrder /\ [][NextOrder]_vars

----------------------------------------------------------------------------
(* get_metas, count *)

\* {"id": idx, **(v or {})}: the fields of v, and id unless v has its own
Listed(idx, v) ==
    [f \in DOMAIN v \cup {"id"} |-> IF f \in DOMAIN v THEN v[f] ELSE idx]

\* metas.sort(key=lambda x: x.get('id', 0)): stable, ascending
RECURSIVE SortById(_)
SortById(ms) ==
    IF Len(ms) <= 1 THEN ms
    ELSE LET rest == SortById(Tail(ms))
             le   == SelectSeq(rest, LAMBDA x : x["id"] < Head(ms)["id"])
             gt   == SelectSeq(rest, LAMBDA x : ~(x["id"] < Head(ms)["id"]))
         IN  le \o <<Head(ms)>> \o gt

\* get_metas(limit=None)
GetMetas(d) ==
    LET es == RecordEntries(d)
    IN  SortById([i \in 1..Len(es) |-> Listed(ToInt(es[i].k), es[i].v)])

\* the limits callers hand to get_metas; /index hands 20 by default
Limits == {0, 1, 2, 3}

\* metas[:limit]
Slice(ms, limit) ==
    IF limit >= 0 THEN SubSeq(ms, 1, Min(limit, Len(ms)))
    ELSE SubSeq(ms, 1, IF Len(ms) + limit > 0 THEN Len(ms) + limit ELSE 0)

\* get_metas(limit)
GetMetasLimit(d, limit) == Slice(GetMetas(d), limit)

----------------------------------------------------------------------------
(* Observations used by the claims *)

\* the number of vector rows the search backend answers from
BackendRows ==
    IF use_faiss /\ index # None THEN Len(index.rows)
    ELSE IF embeddings = None THEN 0
    ELSE Len(embeddings.rows)

\* the text each backend row was embedded from
BackendTexts ==
    IF use_faiss /\ index # None THEN index.rows
    ELSE IF embeddings = None THEN <<>>
    ELSE embeddings.rows

IsDelete(op) == op \in {"remove_by_ids", "remove_by_source"}

IsMutation(op) == op = "add_texts" \/ IsDelete(op)

\* the stored record with integer id i
Rec(d, i) == Get(d, Str(i))

\* a record has a text that can be embedded again
Textless(m) == ~("text" \in DOMAIN m) \/ m["text"] = ""

\* how many of the ids in S are smaller than i
RankIn(S, i) == Cardinality({ j \in S : j < i })

----------------------------------------------------------------------------
(* _load: constructing a RAGIndex from the artifacts under INDEX_PATH *)

\* an artifact that exists but cannot be parsed
Corrupt == [Corrupt |-> TRUE]

\* _load forgetting the persisted corpus
LoadTextsForgetting(ef, tf) == <<>>

\* json.load(meta.json), or {} when the file does not exist
LoadIdToMeta(mf) == IF mf = None THEN <<>> ELSE JsonLoad(mf)

\* self._use_faiss: faiss is importable, faiss.index exists and read_index succeeds
LoadUseFaiss(xf) == has_faiss /\ xf # None /\ xf # Corrupt

\* self.index
LoadIndex(xf) == IF LoadUseFaiss(xf) THEN xf ELSE None

\* the sklearn branch of _load is taken: not self._use_faiss and embeddings.npy exists
LoadsEmbeddings(xf, ef) == ~LoadUseFaiss(xf) /\ ef # None

\* self.embeddings
LoadEmbeddings(xf, ef) == IF LoadsEmbeddings(xf, ef) THEN ef ELSE None

\* self.texts: texts.json when the sklearn branch is taken and the file parses
LoadTexts(ef, tf) ==
    IF ef # None /\ tf # None /\ tf # Corrupt THEN JsonLoad(tf) ELSE <<>>

\* self._tfidf: fitted on the loaded corpus, a fit that raises is passed over
LoadTfidf(corpus) ==
    IF use_tfidf /\ Len(corpus) > 0 /\ ~FitFails(corpus) THEN Fitted(corpus)
    ELSE NotFitted

\* json.load(meta.json) or np.load(embeddings.npy) raises: neither is caught;
\* _build_sklearn on a loaded matrix with rows raises NameError when
\* NearestNeighbors was not imported
LoadRaises(mf, xf, ef) ==
    \/ mf = Corrupt
    \/ LoadsEmbeddings(xf, ef) /\ ef = Corrupt
    \/ LoadsEmbeddings(xf, ef) /\ ef # Corrupt /\ Len(ef.rows) > 0 /\ has_faiss

\* __init__ on the artifacts mf, xf, ef, tf; when _load raises no index exists
Load(mf, xf, ef, tf, crashed) ==
    IF LoadRaises(mf, xf, ef)
    THEN /\ id_to_meta' = <<>>
         /\ index' = None
         /\ use_faiss' = FALSE
         /\ embeddings' = None
         /\ texts' = <<>>
         /\ tfidf' = NotFitted
         /\ nn' = None
         /\ last' = [op |-> "restart", ok |-> FALSE, crashed |-> crashed]
    ELSE LET corpus == IF LoadsEmbeddings(xf, ef) THEN LoadTexts(ef, tf) ELSE <<>>
         IN  /\ id_to_meta' = LoadIdToMeta(mf)
             /\ index' = LoadIndex(xf)
             /\ use_faiss' = LoadUseFaiss(xf)
             /\ embeddings' = LoadEmbeddings(xf, ef)
             /\ texts' = corpus
             /\ tfidf' = LoadTfidf(corpus)
             /\ nn' = BuildSklearn(LoadEmbeddings(xf, ef))
             /\ last' = [op |-> "restart", ok |-> TRUE, crashed |-> crashed]

\* the process is stopped between two calls and started again
Restart ==
    /\ Load(meta_file, index_file, embeddings_file, texts_file, FALSE)
    /\ UNCHANGED <<conf, ext, crashes, disk>>

----------------------------------------------------------------------------
(* A crash between the artifact writes of add_texts / _rebuild_from_metas *)

Write(file, value) == [file |-> file, value |-> value]

\* self.id_to_meta as add_texts leaves it (lines 160-181)
AddedIdToMeta(batch, metas) ==
    IF use_tfidf
    THEN Put(AssignMetas(id_to_meta, TfidfStartId(texts), metas, texts \o batch,
                         TRUE, 0),
             "dim", FitTransform(texts \o batch).dim)
    ELSE Put(AssignMetas(id_to_meta, DenseStartId(id_to_meta), metas, texts,
                         FALSE, 0),
             "dim", Encode(batch).dim)

\* the artifacts add_texts writes, in the order it writes them: write_index
\* (150) or np.save (154) and _save_texts (156), then _save_meta (182)
AddWrites(batch, metas) ==
    IF Len(batch) = 0 THEN <<>>
    ELSE IF use_tfidf
    THEN IF FitFails(texts \o batch) THEN <<>>
         ELSE << Write("embeddings", FitTransform(texts \o batch)),
                 Write("texts", JsonDump(texts \o batch)),
                 Write("meta", JsonDump(AddedIdToMeta(batch, metas))) >>
    ELSE IF has_faiss
    THEN << Write("index", FaissAdd(index, Encode(batch))),
            Write("meta", JsonDump(AddedIdToMeta(batch, metas))) >>
    ELSE << Write("embeddings", DenseSklearnEmbeddings(embeddings, Encode(batch))),
            Write("texts", JsonDump(texts)),
            Write("meta", JsonDump(AddedIdToMeta(batch, metas))) >>

\* the artifacts _rebuild_from_metas writes, in the order it writes them:
\* write_index (213) or np.save (217, 239), texts.json removed (223) or saved
\* (240), then _save_meta (228, 244)
RebuildWrites(kept_metas) ==
    IF use_tfidf
    THEN LET corpus == TfidfTexts(kept_metas)
             emb    == IF Len(corpus) > 0 THEN FitTransform(corpus)
                                          ELSE Matrix(<<>>, 0)
         IN  IF Len(corpus) > 0 /\ FitFails(corpus) THEN <<>>
             ELSE << Write("embeddings", emb),
                     Write("texts", JsonDump(corpus)),
                     Write("meta", JsonDump(NewIdToMeta(kept_metas, emb.dim))) >>
    ELSE IF MissingText(kept_metas) \/ ~HasShape1(CollectedTexts(kept_metas))
    THEN <<>>
    ELSE LET emb == Encode(CollectedTexts(kept_metas))
         IN  << Write(IF has_faiss THEN "index" ELSE "embeddings", emb),
                Write("texts", None),
                Write("meta", JsonDump(NewIdToMeta(kept_metas, emb.dim))) >>

\* the content of one artifact once the first n writes of ws are on disk
FileAfter(file, current, ws, n) ==
    LET done == { i \in 1..n : ws[i].file = file }
    IN  IF done = {} THEN current
        ELSE ws[CHOOSE i \in done : \A j \in done : j <= i].value

\* the process dies after the first n of the writes ws, and is started again
CrashAfter(ws, n) ==
    /\ crashes < MaxCrashes
    /\ crashes' = crashes + 1
    /\ meta_file' = FileAfter("meta", meta_file, ws, n)
    /\ index_file' = FileAfter("index", index_file, ws, n)
    /\ embeddings_file' = FileAfter("embeddings", embeddings_file, ws, n)
    /\ texts_file' = FileAfter("texts", texts_file, ws, n)
    /\ Load(meta_file', index_file', embeddings_file', texts_file', TRUE)
    /\ UNCHANGED <<conf, ext>>

\* the metas /ingest hands to add_texts when the request has none; the crash
\* comes before _save_meta, so no meta of the batch reaches the disk
DefaultMetas(batch) == [i \in 1..Len(batch) |-> [f \in {} |-> ""]]

\* a crash inside add_texts, after at least one write and before the last
CrashInAddTexts ==
    \E batch \in Batches :
        /\ Len(batch) <= MaxTexts - (IF use_tfidf THEN Len(texts)
                                                  ELSE Count(id_to_meta))
        /\ (use_faiss /\ index # None) => Len(index.rows) + Len(batch) <= MaxTexts
        /\ \E n \in 1..(Len(AddWrites(batch, DefaultMetas(batch))) - 1) :
                CrashAfter(AddWrites(batch, DefaultMetas(batch)), n)

\* a crash inside the rebuild of remove_by_ids / remove_by_source
CrashInRemove ==
    \E kept_metas \in { KeptByIds(id_to_meta, ids) : ids \in IdArgs }
                      \cup { KeptBySource(id_to_meta, s) : s \in SourceArgs } :
        \E n \in 1..(Len(RebuildWrites(kept_metas)) - 1) :
            CrashAfter(RebuildWrites(kept_metas), n)

NextRestart ==
    \/ Next
    \/ Restart

\* the index across restarts of the process
SpecRestart == Init /\ [][NextRestart]_vars

NextCrash ==
    \/ Next /\ BackendRows' <= MaxTexts
    \/ CrashInAddTexts
    \/ CrashInRemove

\* the index with crashes between artifact writes, each followed by a restart
SpecCrash == Init /\ [][NextCrash]_vars

----------------------------------------------------------------------------
(* A crash inside one artifact write: the artifact is left truncated *)

\* the process is running: the last __init__ did not raise
Up == ~(last.op = "restart" /\ ~last.ok)

\* the content of one artifact once the first n - 1 writes of ws are on disk and
\* write n was cut short; os.remove (a write of None) is not cut short
FileTornAt(file, current, ws, n) ==
    IF ws[n].file = file /\ ws[n].value # None THEN Corrupt
    ELSE FileAfter(file, current, ws, n - 1)

\* the process dies inside write n of ws, and is started again
TornAt(ws, n) ==
    /\ crashes < MaxCrashes
    /\ crashes' = crashes + 1
    /\ meta_file' = FileTornAt("meta", meta_file, ws, n)
    /\ index_file' = FileTornAt("index", index_file, ws, n)
    /\ embeddings_file' = FileTornAt("embeddings", embeddings_file, ws, n)
    /\ texts_file' = FileTornAt("texts", texts_file, ws, n)
    /\ Load(meta_file', index_file', embeddings_file', texts_file', TRUE)
    /\ UNCHANGED <<conf, ext>>

\* a crash inside one of the writes of add_texts; _save_meta is the last of
\* them, so no meta of the batch reaches the disk whole
TornInAddTexts ==
    \E batch \in Batches :
        /\ Up
        /\ Len(batch) <= MaxTexts - (IF use_tfidf THEN Len(texts)
                                                  ELSE Count(id_to_meta))
        /\ \E n \in 1..Len(AddWrites(batch, DefaultMetas(batch))) :
              TornAt(AddWrites(batch, DefaultMetas(batch)), n)

\* a crash inside one of the writes of a rebuild
TornInRemove ==
    \E kept_metas \in { KeptByIds(id_to_meta, ids) : ids \in IdArgs }
                      \cup { KeptBySource(id_to_meta, s) : s \in SourceArgs } :
        /\ Up
        /\ \E n \in 1..Len(RebuildWrites(kept_metas)) :
              TornAt(RebuildWrites(kept_metas), n)

NextTorn ==
    \/ Up /\ Next
    \/ TornInAddTexts
    \/ TornInRemove

\* the index with crashes that leave a truncated artifact behind
SpecTorn == Init /\ [][NextTorn]_vars

----------------------------------------------------------------------------
(* Callers whose metadata has an id field of its own *)

\* metas with a field named id, next to the default meta of /ingest
IdMetas == { [f \in {} |-> ""], [id |-> 5], [id |-> 5, text |-> "cat"] }

AddTextsWithId ==
    \E batch \in Batches :
        /\ Len(batch) <= MaxTexts - (IF use_tfidf THEN Len(texts) ELSE Count(id_to_meta))
        /\ \E metas \in [1..Len(batch) -> IdMetas] :
                \/ AddNothing(batch, metas)
                \/ AddDense(batch, metas)
                \/ AddTfidf(batch, metas)

NextIds ==
    \/ AddTextsWithId
    \/ RemoveByIds
    \/ RemoveBySource
    \/ Query

\* the index fed by callers that put an id into their metadata
SpecIds == Init /\ [][NextIds]_vars

----------------------------------------------------------------------------
(* POST /ingest *)

\* IngestRequest.metas: absent (None), or a list of dicts of any length
NoMetas == [given |-> FALSE, list |-> <<>>]

GivenMetas(list) == [given |-> TRUE, list |-> list]

RequestMetas ==
    {NoMetas} \cup { GivenMetas(l) : l \in UNION { [1..n -> CallerMetas] : n \in BatchSizes } }

\* metas = req.metas or [{} for _ in texts]: None and the empty list are falsy
IngestMetas(req_texts, req_metas) ==
    IF req_metas.given /\ Len(req_metas.list) > 0 THEN req_metas.list
    ELSE DefaultMetas(req_texts)

\* len(texts) != len(metas): HTTPException(status_code=400)
IngestRejects(req_texts, req_metas) ==
    Len(req_texts) # Len(IngestMetas(req_texts, req_metas))

\* the response of a request that add_texts completed
IngestResponse(req_texts) == [ingested |-> Len(req_texts)]

IngestOf(req_texts, req_metas) ==
    IF IngestRejects(req_texts, req_metas)
    THEN /\ last' = [op |-> "ingest", ok |-> FALSE, err |-> "HTTP 400"]
         /\ UNCHANGED <<conf, ext, crashes, mem, disk>>
    ELSE \/ AddNothing(req_texts, IngestMetas(req_texts, req_metas))
         \/ AddDense(req_texts, IngestMetas(req_texts, req_metas))
         \/ AddTfidf(req_texts, IngestMetas(req_texts, req_metas))

Ingest ==
    \E req_texts \in Batches :
        /\ Len(req_texts) <= MaxTexts - (IF use_tfidf THEN Len(texts)
                                                      ELSE Count(id_to_meta))
        /\ \E req_metas \in RequestMetas : IngestOf(req_texts, req_metas)

NextApi ==
    \/ Ingest
    \/ RemoveByIds
    \/ RemoveBySource
    \/ Query

\* the index behind the /ingest, /delete and /query routes
SpecApi == Init /\ [][NextApi]_vars

----------------------------------------------------------------------------
(* C1 *)

\* C1: after every completed ingest or delete, in every embedding mode and
\* backend, the number of vector rows held by the search backend equals count().
C1_RowsEqualCount ==
    (IsMutation(last.op) /\ last.ok) => BackendRows = Count(id_to_meta)

----------------------------------------------------------------------------
(* C2 *)

\* C2: starting from an empty index, after any sequence of ingests and deletes
\* the set of record ids is exactly {0, ..., count()-1}.
C2_IdsContiguous ==
    Ids(id_to_meta) = 0..(Count(id_to_meta) - 1)

----------------------------------------------------------------------------
(* C3 *)

\* the ids of d that remove_by_source(s) must keep
SurvivorsOfSource(d, s) ==
    { i \in Ids(d) : ~("source" \in DOMAIN Rec(d, i) /\ Rec(d, i)["source"] = s) }

\* C3 as stated, for a call that has a record to remove and one to keep:
\* remove_by_source(s) removes exactly the records whose source equals s,
\* renumbers the K survivors 0..K-1 in the order of their old ascending ids, each
\* with its own fields, and returns the number removed.
C3_AscendingIds ==
    [][\A s \in OrderSources :
         (/\ RemoveBySourceOf(s)
          /\ SurvivorsOfSource(id_to_meta, s) # {}
          /\ SurvivorsOfSource(id_to_meta, s) # Ids(id_to_meta)) =>
            LET surv == SurvivorsOfSource(id_to_meta, s)
            IN  /\ last'.ok
                /\ Count(id_to_meta') = Cardinality(surv)
                /\ Ids(id_to_meta') = 0..(Cardinality(surv) - 1)
                /\ \A i \in surv :
                      Rec(id_to_meta', RankIn(surv, i)) = Rec(id_to_meta, i)
                /\ last'.ret = Cardinality(Ids(id_to_meta) \ surv)]_vars

\* the positions, in the order the dict holds the records, of the records of d
\* whose source is not s
SurvivorsInDict(d, s) ==
    { p \in 1..Count(d) :
        ~("source" \in DOMAIN RecordEntries(d)[p].v /\ RecordEntries(d)[p].v["source"] = s) }

\* the ids in a list are not in ascending order
OutOfOrder(ids) == \E i \in 1..Len(ids) : \E j \in 1..Len(ids) : i < j /\ ids[i] > ids[j]

\* C3 amended: a remove_by_source(s) that completes removes exactly the records
\* whose source equals s, renumbers the K survivors 0..K-1 in the order in which
\* the metadata dict holds them, each with its own fields, and returns the
\* number removed; every call rebuilds the index, so in dense mode it raises
\* when a surviving record has no text; a call that raises removes nothing.
C3_RemoveBySource ==
    [][\A s \in OrderSources :
         RemoveBySourceOf(s) =>
            LET es   == RecordEntries(id_to_meta)
                surv == SurvivorsInDict(id_to_meta, s)
            IN  /\ last'.ok =>
                    /\ Count(id_to_meta') = Cardinality(surv)
                    /\ Ids(id_to_meta') = 0..(Cardinality(surv) - 1)
                    /\ \A p \in surv :
                          Rec(id_to_meta', RankIn(surv, p)) = es[p].v
                    /\ last'.ret = Len(es) - Cardinality(surv)
                /\ ~last'.ok => id_to_meta' = id_to_meta
                /\ (~use_tfidf /\ \E p \in surv : Textless(es[p].v)) => ~last'.ok]_vars

\* a remove_by_source that removed a record and kept two or more whose ids were
\* not in ascending order in the dict
C3_Witness ==
    /\ last.op = "remove_by_source"
    /\ last.ok
    /\ last.ret >= 1
    /\ Len(last.kept) >= 2
    /\ OutOfOrder(last.kept)

----------------------------------------------------------------------------
(* C4 *)

\* C4 as stated, on a populated index: a remove_by_ids call in which no id
\* matches returns 0 and leaves get_metas() and count() as they were.
C4_NoMatchReturnsZero ==
    [][\A ids \in OrderIds :
         (/\ RemoveByIdsOf(ids)
          /\ Count(id_to_meta) >= 1
          /\ ids \cap Ids(id_to_meta) = {}) =>
            /\ last'.ok
            /\ last'.ret = 0
            /\ GetMetas(id_to_meta') = GetMetas(id_to_meta)
            /\ Count(id_to_meta') = Count(id_to_meta)]_vars

\* the positions, in the order the dict holds the records, of the records of d
\* whose id is not in ids
KeptInDict(d, ids) ==
    { p \in 1..Count(d) : ToInt(RecordEntries(d)[p].k) \notin ids }

\* C4 amended: a remove_by_ids(ids) that completes removes exactly the stored
\* records whose id is in ids, renumbers the others 0..K-1 in the order in which
\* the metadata dict holds them and returns the number removed; ids that are not
\* stored are ignored, but every call rebuilds the index: in dense mode it raises
\* when a kept record has no text, a call that raises leaves get_metas() and
\* count() as they were, and a completed call in which no id matches returns 0
\* and leaves count() and the records, fields and order in the dict, as they
\* were, under the ids 0..K-1.
C4_RemoveByIds ==
    [][\A ids \in OrderIds :
         RemoveByIdsOf(ids) =>
            LET es   == RecordEntries(id_to_meta)
                surv == KeptInDict(id_to_meta, ids)
            IN  /\ last'.ok =>
                    /\ Count(id_to_meta') = Cardinality(surv)
                    /\ Ids(id_to_meta') = 0..(Cardinality(surv) - 1)
                    /\ \A p \in surv :
                          Rec(id_to_meta', RankIn(surv, p)) = es[p].v
                    /\ last'.ret = Cardinality(Ids(id_to_meta) \cap ids)
                /\ (last'.ok /\ ids \cap Ids(id_to_meta) = {}) =>
                    /\ last'.ret = 0
                    /\ Count(id_to_meta') = Count(id_to_meta)
                    /\ Values(RecordEntries(id_to_meta')) = Values(es)
                /\ ~last'.ok =>
                    /\ GetMetas(id_to_meta') = GetMetas(id_to_meta)
                    /\ Count(id_to_meta') = Count(id_to_meta)
                /\ (~use_tfidf /\ \E p \in surv : Textless(es[p].v))
                      => ~last'.ok]_vars

\* a remove_by_ids in which no id matched that completed on an index holding
\* two or more records whose ids were not in ascending order in the dict
C4_Witness ==
    /\ last.op = "remove_by_ids"
    /\ last.ok
    /\ last.ret = 0
    /\ Len(last.kept) >= 2
    /\ OutOfOrder(last.kept)

----------------------------------------------------------------------------
(* C5 *)

\* the id under which text i (1-based) of the last batch was stored
NewId(i) ==
    (IF use_tfidf THEN Len(texts) ELSE Count(id_to_meta)) - Len(last.texts) + i - 1

\* C5 as stated: after an ingest every newly stored record i carries a text field
\* equal to texts[i], in both modes and whatever the caller's meta held.
C5_TextStored ==
    (last.op = "add_texts" /\ last.ok) =>
        \A i \in 1..Len(last.texts) :
            /\ "text" \in DOMAIN Rec(id_to_meta, NewId(i))
            /\ Rec(id_to_meta, NewId(i))["text"] = last.texts[i]

\* C5 amended: after a completed ingest in sparse mode every newly stored record
\* i with a non-empty texts[i] is the caller's meta with text set to texts[i]; in
\* dense mode, and for an empty texts[i], the record is the caller's meta as it
\* was handed in, with a text field only if the caller supplied one.
C5_TextStoredSparse ==
    (last.op = "add_texts" /\ last.ok) =>
        \A i \in 1..Len(last.texts) :
            LET m == Rec(id_to_meta, NewId(i))
                c == last.metas[i]
            IN  IF use_tfidf /\ last.texts[i] # ""
                THEN /\ DOMAIN m = DOMAIN c \cup {"text"}
                     /\ m["text"] = last.texts[i]
                     /\ \A f \in DOMAIN c \ {"text"} : m[f] = c[f]
                ELSE m = c

\* a dense ingest whose caller gave no text: the stored record has none
C5_Witness ==
    /\ last.op = "add_texts"
    /\ last.ok
    /\ ~use_tfidf
    /\ \E i \in 1..Len(last.texts) :
          /\ last.texts[i] # ""
          /\ "text" \notin DOMAIN Rec(id_to_meta, NewId(i))

----------------------------------------------------------------------------
(* C6 *)

\* C6: in dense mode a remove_by_ids / remove_by_source whose kept set holds a
\* record without text raises and changes nothing, in memory or on disk.
C6_DenseDeleteAborts ==
    [][~use_tfidf =>
         /\ \A ids \in IdArgs :
               (/\ RemoveByIdsOf(ids)
                /\ \E i \in Ids(id_to_meta) \ ids : Textless(Rec(id_to_meta, i)))
               => (~last'.ok /\ UNCHANGED <<mem, disk>>)
         /\ \A s \in SourceArgs :
               (/\ RemoveBySourceOf(s)
                /\ \E i \in SurvivorsOfSource(id_to_meta, s) :
                      Textless(Rec(id_to_meta, i)))
               => (~last'.ok /\ UNCHANGED <<mem, disk>>)]_vars

\* a dense delete that raised for a missing text
C6_Witness ==
    /\ ~use_tfidf
    /\ IsDelete(last.op)
    /\ ~last.ok
    /\ last.err = "ValueError"
    /\ \E i \in Ids(id_to_meta) : Textless(Rec(id_to_meta, i))

----------------------------------------------------------------------------
(* C7 *)

\* the text a rebuild embeds for record m on the TF-IDF path
TextOrEmpty(m) == IF "text" \in DOMAIN m THEN m["text"] ELSE ""

\* C7 as stated: in either mode a delete whose kept set holds a record without
\* text fails with an error.
C7_TextlessKeptFails ==
    [][/\ \A ids \in IdArgs :
            (/\ RemoveByIdsOf(ids)
             /\ \E i \in Ids(id_to_meta) \ ids : Textless(Rec(id_to_meta, i)))
            => ~last'.ok
       /\ \A s \in SourceArgs :
            (/\ RemoveBySourceOf(s)
             /\ \E i \in SurvivorsOfSource(id_to_meta, s) :
                   Textless(Rec(id_to_meta, i)))
            => ~last'.ok]_vars

\* what a delete keeping the ids surv does when one of them has no text
C7_Post(surv) ==
    (\E i \in surv : Textless(Rec(id_to_meta, i))) =>
        IF ~use_tfidf
        THEN ~last'.ok /\ last'.err = "ValueError"
        ELSE /\ last'.ok <=>
                  \E i \in surv : Tokens(TextOrEmpty(Rec(id_to_meta, i))) # {}
             /\ last'.ok =>
                  \A i \in surv :
                      Textless(Rec(id_to_meta, i)) =>
                          /\ RankIn(surv, i) + 1 <= Len(BackendTexts')
                          /\ BackendTexts'[RankIn(surv, i) + 1] = ""

\* C7 amended: in dense mode a delete whose kept set holds a record without text
\* fails with ValueError; in sparse mode it does not fail for that reason: the
\* record is re-embedded as the empty text, and the delete raises only when no
\* kept record has a token.
C7_TextlessKept ==
    [][/\ \A ids \in IdArgs :
            RemoveByIdsOf(ids) => C7_Post(Ids(id_to_meta) \ ids)
       /\ \A s \in SourceArgs :
            RemoveBySourceOf(s) => C7_Post(SurvivorsOfSource(id_to_meta, s))]_vars

\* a sparse delete that completed and kept a record without text
C7_Witness ==
    /\ use_tfidf
    /\ IsDelete(last.op)
    /\ last.ok
    /\ \E i \in Ids(id_to_meta) :
          /\ Textless(Rec(id_to_meta, i))
          /\ i + 1 <= Len(BackendTexts)
          /\ BackendTexts[i + 1] = ""

----------------------------------------------------------------------------
(* C8 *)

\* the rows query(q, k) matches, nearest first
MatchedRows(q, k) ==
    Search(BackendTexts, q, k, use_tfidf, QueryTfidf.vocabulary)

\* C8: on a populated index query(text, k), k >= 1, returns exactly
\* min(k, count()) results, and each result's meta is the non-null stored record
\* whose id is the backend row it was matched on.
C8_QueryHits ==
    Count(id_to_meta) >= 1 =>
        \A q \in Texts : \A k \in Ks :
            LET out == QueryOutcome(q, k)
            IN  /\ out.ok
                /\ Len(out.ret) = Min(k, Count(id_to_meta))
                /\ \A j \in 1..Len(out.ret) :
                      /\ out.ret[j].meta # None
                      /\ Has(id_to_meta, Str(MatchedRows(q, k)[j]))
                      /\ out.ret[j].meta = Rec(id_to_meta, MatchedRows(q, k)[j])

----------------------------------------------------------------------------
(* C9 *)

\* C9: on an index that holds no records query(text, k) returns the empty list
\* and raises nothing, in every mode and backend.
C9_EmptyQuery ==
    Count(id_to_meta) = 0 =>
        \A q \in Texts : \A k \in Ks :
            /\ QueryOutcome(q, k).ok
            /\ QueryResult(q, k) = <<>>

\* a query answered by an index without records
C9_Witness ==
    /\ last.op = "query"
    /\ last.ok
    /\ Count(id_to_meta) = 0

----------------------------------------------------------------------------
(* C10 *)

\* C10: from POPULATED, a delete that removes every record completes without
\* error in both modes, returns the number of records that existed and leaves
\* the index EMPTY: count() == 0, get_metas() == [], query returns [].
C10_Post ==
    /\ last'.ok
    /\ last'.ret = Count(id_to_meta)
    /\ Count(id_to_meta') = 0
    /\ GetMetas(id_to_meta') = <<>>

C10_DeleteAll ==
    [][/\ \A ids \in IdArgs :
            (/\ RemoveByIdsOf(ids)
             /\ Count(id_to_meta) >= 1
             /\ Ids(id_to_meta) \subseteq ids) => C10_Post
       /\ \A s \in SourceArgs :
            (/\ RemoveBySourceOf(s)
             /\ Count(id_to_meta) >= 1
             /\ SurvivorsOfSource(id_to_meta, s) = {}) => C10_Post]_vars

----------------------------------------------------------------------------
(* C11 *)

\* the last call was an ingest or delete that ran to its end and wrote the
\* artifacts (add_texts of an empty batch returns before it writes anything)
Persisted ==
    /\ IsMutation(last.op)
    /\ last.ok
    /\ last.op = "add_texts" => Len(last.texts) > 0

\* C11: constructing a new index from the artifacts a completed ingest or delete
\* persisted (same mode and backend) yields the same get_metas() output, the same
\* count() and the same ordered query results for every query; in sparse mode the
\* vectorizer is fitted on the persisted corpus before the first query is answered.
C11_ReloadRoundTrip ==
    [][(last'.op = "restart" /\ Persisted) =>
          /\ last'.ok
          /\ GetMetas(id_to_meta') = GetMetas(id_to_meta)
          /\ Count(id_to_meta') = Count(id_to_meta)
          /\ \A q \in Texts : \A k \in Ks :
                QueryOutcome(q, k)' = QueryOutcome(q, k)
          /\ (use_tfidf /\ Count(id_to_meta') >= 1) =>
                /\ texts_file' # None
                /\ tfidf' = Fitted(JsonLoad(texts_file'))]_vars

\* a sparse index with records, reloaded, that answers a query with a hit
C11_Witness ==
    /\ last.op = "restart"
    /\ last.ok
    /\ use_tfidf
    /\ Count(id_to_meta) >= 1
    /\ \E q \in Texts : Len(QueryResult(q, 1)) = 1

----------------------------------------------------------------------------
(* C12 *)

\* rows == count() and ids are 0..count()-1: what the claim asks for, short of
\* the pairing of each row with its record
Consistent ==
    /\ BackendRows = Count(id_to_meta)
    /\ Ids(id_to_meta) = 0..(Count(id_to_meta) - 1)

\* C12: after a crash between the artifact writes of an ingest or delete and a
\* restart, the next ingest or delete that completes leaves the index consistent:
\* rows == count(), ids exactly 0..count()-1, every row the vector of its record.
C12_CrashResolved ==
    [][(last.op = "restart" /\ last.crashed /\ Persisted') => Consistent']_vars

----------------------------------------------------------------------------
(* C13 *)

AnyCorrupt ==
    \/ meta_file = Corrupt
    \/ index_file = Corrupt
    \/ embeddings_file = Corrupt
    \/ texts_file = Corrupt

\* C13: constructing the index never raises because of persisted state, and when
\* an artifact is corrupt or unreadable the index starts cold and empty:
\* count() == 0 and no vectors, never records without vectors or vectors without
\* records.
C13_ColdStartOnCorrupt ==
    last.op = "restart" =>
        /\ last.ok
        /\ AnyCorrupt => (Count(id_to_meta) = 0 /\ BackendRows = 0)

----------------------------------------------------------------------------
(* C14 *)

\* C14: an ingest or delete that raises leaves no partial mutation: the records,
\* the vectors, the retained corpus, the vectorizer and the artifacts are as they
\* were before the call.
C14_NoPartialMutation ==
    [][(IsMutation(last'.op) /\ ~last'.ok) => UNCHANGED <<mem, disk>>]_vars

----------------------------------------------------------------------------
(* C15 *)

\* C15: query never raises to its caller: whatever fails while the query is
\* embedded or the backend searched, the call returns a list.
C15_QueryNeverRaises ==
    \A q \in Texts : \A k \in Ks : QueryOutcome(q, k).ok

----------------------------------------------------------------------------
(* C16 *)

\* a query tried the lazy fit of lines 290-294: sparse mode, a corpus, and a
\* vectorizer without vocabulary_.  _load fits the vectorizer of a persisted
\* corpus itself (lines 92-95), so that the vectorizer is left unfitted over a
\* corpus only by an ingest or a delete that raised in fit_transform.
LazyFitTried == use_tfidf /\ Len(texts) > 0 /\ ~tfidf.fitted

----------------------------------------------------------------------------
(* C17 *)

\* C17: in sparse mode, after every completed ingest or delete the sentinel
\* dimension equals the vocabulary size of the entire retained corpus, which is
\* the column count of the stored matrix.
C17_SparseDim ==
    (use_tfidf /\ IsMutation(last.op) /\ last.ok /\ Has(id_to_meta, "dim")) =>
        /\ Get(id_to_meta, "dim") = Cardinality(Vocabulary(texts))
        /\ embeddings # None
        /\ Get(id_to_meta, "dim") = embeddings.dim

----------------------------------------------------------------------------
(* C18 *)

\* C18: get_metas() lists the stored records in strictly ascending order of id,
\* each entry under the id its record is stored under and with the record's other
\* fields, whatever fields the caller's metadata has; get_metas(limit) is the
\* first min(limit, count()) entries of that listing.
C18_GetMetas ==
    LET ms == GetMetas(id_to_meta)
    IN  /\ Len(ms) = Count(id_to_meta)
        /\ \A i \in 1..Len(ms) : \A j \in 1..Len(ms) :
              i < j => ms[i]["id"] < ms[j]["id"]
        /\ { ms[i]["id"] : i \in 1..Len(ms) } = Ids(id_to_meta)
        /\ \A i \in 1..Len(ms) :
              /\ Has(id_to_meta, Str(ms[i]["id"]))
              /\ DOMAIN ms[i] = DOMAIN Rec(id_to_meta, ms[i]["id"]) \cup {"id"}
              /\ \A f \in DOMAIN ms[i] \ {"id"} :
                    ms[i][f] = Rec(id_to_meta, ms[i]["id"])[f]
        /\ \A limit \in Limits :
              GetMetasLimit(id_to_meta, limit)
                  = SubSeq(ms, 1, Min(limit, Count(id_to_meta)))

----------------------------------------------------------------------------
(* C19 *)

\* the keys of d other than the sentinel
RecordKeys(d) == Keys(d) \ {"dim"}

\* C19: the sentinel entry is never treated as a record: count() does not count
\* it, get_metas() does not list it, the deletes neither count it in before nor
\* keep it, every record sits under the string of a number while the sentinel
\* holds the dimension, and every meta a query returns is a record's meta or None.
C19_SentinelNotARecord ==
    LET d == id_to_meta
    IN  /\ Count(d) = Cardinality(RecordKeys(d))
        /\ Len(GetMetas(d)) = Cardinality(RecordKeys(d))
        /\ Before(d) = Cardinality(RecordKeys(d))
        /\ \A ids \in IdArgs :
              Len(KeptByIds(d, ids))
                  = Cardinality({ k \in RecordKeys(d) : ToInt(k) \notin ids })
        /\ \A s \in SourceArgs :
              Len(KeptBySource(d, s)) = Cardinality(SurvivorsOfSource(d, s))
        /\ \A k \in RecordKeys(d) : \E i \in 0..(Len(StrTab) - 1) : k = Str(i)
        /\ Has(d, "dim") =>
              Get(d, "dim") = (IF use_faiss /\ index # None THEN index.dim
                                                           ELSE embeddings.dim)
        /\ \A q \in Texts : \A k \in Ks :
              \A j \in 1..Len(QueryResult(q, k)) :
                  \/ QueryResult(q, k)[j].meta = None
                  \/ \E i \in Ids(d) : QueryResult(q, k)[j].meta = Rec(d, i)

\* a delete that removed one record and kept another, next to the sentinel
C19_Witness ==
    /\ Has(id_to_meta, "dim")
    /\ IsDelete(last.op)
    /\ last.ok
    /\ last.ret = 1
    /\ Count(id_to_meta) = 1
    /\ \E q \in Texts : Len(QueryResult(q, 1)) = 1

----------------------------------------------------------------------------
(* C20 *)

\* C20: an /ingest request whose metas array is given with a length other than
\* that of texts, the empty metas array with non-empty texts included, is
\* rejected with a validation error and leaves the index unchanged; a request
\* that is accepted and completes adds len(texts) to count() and reports
\* ingested == len(texts).
C20_Ingest ==
    [][\A req_texts \in Batches : \A req_metas \in RequestMetas :
          IngestOf(req_texts, req_metas) =>
             IF req_metas.given /\ Len(req_metas.list) # Len(req_texts)
             THEN /\ last'.op = "ingest"
                  /\ ~last'.ok
                  /\ UNCHANGED <<mem, disk>>
             ELSE last'.ok =>
                    /\ Count(id_to_meta') = Count(id_to_meta) + Len(req_texts)
                    /\ IngestResponse(req_texts).ingested = Len(req_texts)]_vars

----------------------------------------------------------------------------
(* INDEX = RAGIndex(): the variants chosen at construction *)

\* NearestNeighbors and TfidfVectorizer are bound: the two imports sit in the
\* except branch of the faiss import
SklearnImported == ~has_faiss

\* (not fast_mode) and _HAS_SENTE and _SentenceTransformer is not None
SelectsDense == ~fast_mode /\ has_sente

\* self._tfidf = TfidfVectorizer() raises NameError
InitRaises == ~SelectsDense /\ ~SklearnImported

\* if _HAS_FAISS and not self._use_tfidf: the faiss branch of add_texts
PrefersFaiss == has_faiss /\ ~use_tfidf

\* the module is imported and INDEX = RAGIndex() runs, INDEX_PATH being empty
Construct ==
    /\ instance = "none"
    /\ IF InitRaises
       THEN /\ instance' = "raised"
            /\ last' = [op |-> "init", ok |-> FALSE, err |-> "NameError"]
            /\ UNCHANGED <<use_tfidf, model, mem>>
       ELSE /\ instance' = "ready"
            /\ use_tfidf' = ~SelectsDense
            /\ model' \in IF SelectsDense THEN Geometries ELSE {None}
            /\ id_to_meta' = LoadIdToMeta(meta_file)
            /\ index' = LoadIndex(index_file)
            /\ use_faiss' = LoadUseFaiss(index_file)
            /\ embeddings' = LoadEmbeddings(index_file, embeddings_file)
            /\ texts' = <<>>
            /\ tfidf' = NotFitted
            /\ nn' = BuildSklearn(embeddings')
            /\ last' = [op |-> "init", ok |-> TRUE]
    /\ UNCHANGED <<has_faiss, env, limiter, store, chunker, stream, disk,
                   crashes>>

\* the process before INDEX = RAGIndex(): any set of installed packages, any RAG_FAST
InitConstruct ==
    /\ has_sente \in BOOLEAN
    /\ has_faiss \in BOOLEAN
    /\ fast_mode \in BOOLEAN
    /\ use_tfidf = FALSE
    /\ instance = "none"
    /\ EmptyIndex
    /\ last = [op |-> "import", ok |-> TRUE]
    /\ Idle

NextConstruct ==
    \/ Construct
    \/ instance = "ready" /\ Next

\* construction of the index, then its use
SpecConstruct == InitConstruct /\ [][NextConstruct]_vars

----------------------------------------------------------------------------
(* C21 *)

\* C21: for every combination of (dense model available, exact-search library
\* available, fast mode), constructing the index succeeds; the embedding mode
\* is dense iff the dense model is available and fast mode is off, sparse
\* otherwise; rows are held by the exact (faiss) backend iff faiss is
\* available and the mode is dense, by the approximate backend otherwise; and
\* the embedding mode never changes while the instance lives.
C21_Construction ==
    /\ [](instance # "none" =>
            /\ instance = "ready"
            /\ use_tfidf = ~(has_sente /\ ~fast_mode)
            /\ BackendRows > 0 =>
                    ((use_faiss /\ index # None) <=> (has_faiss /\ ~use_tfidf))
            /\ BackendRows > 0 =>
                    ((embeddings # None /\ nn # None) <=> ~(has_faiss /\ ~use_tfidf)))
    /\ [][instance = "ready" => (instance' = "ready" /\ use_tfidf' = use_tfidf)]_vars

----------------------------------------------------------------------------
(* rate_limit.allow: one token bucket per client address.  The clock is
   time.monotonic() read in ticks of 1/TicksPerSecond second, and a token
   count is held in units of 1/TicksPerSecond token, so that the float
   values of the code are integers here. *)

\* rl_allow(ip, capacity=60, per_seconds=60, cost=...) as the routes call it
Capacity == 60
PerSeconds == 60

\* cost: 1 or 5 for /query, 10 for /query_stream
Costs == {1, 5, 10}

\* the requests of the model: the first client uses every route, the second
\* one only /query_stream
CostsOf(ip) == IF ip = "10.0.0.1" THEN Costs ELSE {10}

\* the resolution of the clock of the model
TicksPerSecond == 2

\* the last reading of the clock explored
MaxNow == 5

\* rate = capacity / per_seconds, in tokens per second
Rate == Capacity \div PerSeconds

\* capacity, in token units
Full == Capacity * TicksPerSecond

\* the process as main.py leaves it after import, sparse mode, nothing ingested
AppStarted ==
    /\ use_tfidf = TRUE
    /\ has_faiss = FALSE
    /\ has_sente = FALSE
    /\ fast_mode = FALSE
    /\ instance = "ready"
    /\ EmptyIndex
    /\ last = [op |-> "init", ok |-> TRUE]
    /\ Idle

Bucket(tokens, at) == [tokens |-> tokens, last |-> at]

\* tokens, last = _buckets.get(ip, (capacity, now))
StoredBucket(ip, t) == IF ip \in DOMAIN buckets THEN buckets[ip] ELSE Bucket(Full, t)

\* the refill without the cap at capacity
RefilledUncapped(ip, t) ==
    StoredBucket(ip, t).tokens + (t - StoredBucket(ip, t).last) * Rate

\* tokens = min(capacity, tokens + (now - last) * rate)
Refilled(ip, t) ==
    Min(Full, StoredBucket(ip, t).tokens + (t - StoredBucket(ip, t).last) * Rate)

\* if tokens >= cost
Allowed(ip, cost, t) == Refilled(ip, t) >= cost * TicksPerSecond

\* retry_after = needed / rate, in ticks
RetryAfter(ip, cost, t) == (cost * TicksPerSecond - Refilled(ip, t)) \div Rate

\* headers={"Retry-After": str(int(retry_after))}: whole seconds, truncated
RetryAfterHeader(ip, cost, t) == RetryAfter(ip, cost, t) \div TicksPerSecond

\* allow(ip, 60, 60, cost) called when the clock reads t, and the response
AllowAt(op, ip, cost, t) ==
    /\ now' = t
    /\ buckets' = [a \in DOMAIN buckets \cup {ip} |->
                     IF a # ip THEN buckets[a]
                     ELSE IF Allowed(ip, cost, t)
                     THEN Bucket(Refilled(ip, t) - cost * TicksPerSecond, t)
                     ELSE Bucket(Refilled(ip, t), t)]
    /\ last' = [op |-> op, ip |-> ip, cost |-> cost, ok |-> Allowed(ip, cost, t),
                status |-> IF Allowed(ip, cost, t) THEN 200 ELSE 429,
                retry_after |-> IF Allowed(ip, cost, t) THEN 0
                                ELSE RetryAfterHeader(ip, cost, t)]
    /\ UNCHANGED <<conf, mem, disk, crashes, env, instance, store, chunker,
                   stream>>

\* a request arrives at /query or /query_stream
Allow == \E ip \in IPs : \E cost \in CostsOf(ip) : AllowAt("allow", ip, cost, now)

\* time passes
Tick ==
    /\ now < MaxNow
    /\ now' = now + 1
    /\ UNCHANGED <<conf, mem, disk, crashes, env, instance, store, chunker,
                   stream, buckets, last>>

\* the client of the last, denied request waits the seconds of its Retry-After
\* header and sends the request again; nobody else calls in between
WaitAndRetry ==
    /\ last.op \in {"allow", "retry"}
    /\ ~last.ok
    /\ buckets[last.ip].last = now
    /\ now + last.retry_after * TicksPerSecond <= MaxNow
    /\ AllowAt("retry", last.ip, last.cost, now + last.retry_after * TicksPerSecond)

NextLimiter ==
    \/ Allow
    \/ Tick
    \/ WaitAndRetry

\* the rate limiter under requests from the client addresses
SpecLimiter == AppStarted /\ [][NextLimiter]_vars

----------------------------------------------------------------------------
(* C23 *)

\* C23: for every client address and every sequence of allow() calls the
\* stored token count stays within [0, capacity]; a call is allowed exactly
\* when the refilled token count is at least its cost; an allowed call deducts
\* exactly its cost from the refilled count, a denied call deducts nothing;
\* and the call leaves the buckets of the other addresses alone.
C23_TokenBucket ==
    /\ [](\A ip \in DOMAIN buckets : buckets[ip].tokens \in 0..Full)
    /\ [][<<buckets, last>>' # <<buckets, last>> =>
            LET ip   == last'.ip
                cost == last'.cost * TicksPerSecond
                had  == Refilled(ip, now')
            IN  /\ last'.ok <=> had >= cost
                /\ last'.ok => buckets'[ip].tokens = had - cost
                /\ ~last'.ok => buckets'[ip].tokens = had
                /\ \A a \in DOMAIN buckets \ {ip} : buckets'[a] = buckets[a]]_vars

\* a request was denied on a bucket that holds a fraction of a token after a
\* refill, while the other client has a bucket of its own
C23_Witness ==
    /\ last.op = "allow"
    /\ ~last.ok
    /\ DOMAIN buckets = IPs
    /\ buckets[last.ip].tokens % TicksPerSecond = 1
    /\ \E a \in IPs : a # last.ip /\ buckets[a].tokens > buckets[last.ip].tokens

----------------------------------------------------------------------------
(* C24 *)

\* C24: a client whose request was denied, that waits the seconds of the
\* Retry-After header and repeats the request, with no other request from its
\* address in between, is allowed.
C24_RetryAllowed == last.op = "retry" => last.ok

----------------------------------------------------------------------------
(* memory.SessionMemory: MEMORY = SessionMemory(), the chat turns per session *)

\* _MAX_TURNS_DEFAULT
MaxTurns == 5

\* the (user, assistant) texts of a turn; either text may be empty
Turns == { <<"hi", "hello">>, <<"why", "">>, <<"", "because">> }

\* the turns of the model: the session "t" repeats one turn
TurnsOf(session_id) == IF session_id = "t" THEN { <<"hi", "hello">> } ELSE Turns

\* the values of limit_pairs
LimitPairs == 0..(MaxTurns + 1)

\* deque(maxlen=self.max_turns).append(pair): the oldest pair falls out
DequeAppend(dq, pair) ==
    LET all == Append(dq, pair)
    IN  IF Len(all) > MaxTurns THEN SubSeq(all, Len(all) - MaxTurns + 1, Len(all))
        ELSE all

\* add_turn(session_id, user_text, assistant_text)
AddTurn ==
    \E session_id \in Sessions : \E pair \in TurnsOf(session_id) :
        /\ IF session_id = ""
           THEN UNCHANGED store
           ELSE store' = [k \in DOMAIN store \cup {session_id} |->
                            IF k # session_id THEN store[k]
                            ELSE IF k \in DOMAIN store THEN DequeAppend(store[k], pair)
                            ELSE DequeAppend(<<>>, pair)]
        /\ last' = [op |-> "add_turn", session_id |-> session_id, pair |-> pair]
        /\ UNCHANGED <<conf, mem, disk, crashes, env, instance, limiter,
                       chunker, stream>>

\* limit_pairs or self.max_turns: 0 is falsy
LimitOr(limit_pairs) == IF limit_pairs = 0 THEN MaxTurns ELSE limit_pairs

\* list(dq)[-n:] for n >= 1
LastPairs(dq, n) == SubSeq(dq, IF Len(dq) > n THEN Len(dq) - n + 1 ELSE 1, Len(dq))

\* the role/content messages of the pairs; an empty text gives no message
RECURSIVE Messages(_)
Messages(pairs) ==
    IF Len(pairs) = 0 THEN <<>>
    ELSE (IF pairs[1][1] # "" THEN << [role |-> "user", content |-> pairs[1][1]] >>
          ELSE <<>>)
         \o (IF pairs[1][2] # ""
             THEN << [role |-> "assistant", content |-> pairs[1][2]] >>
             ELSE <<>>)
         \o Messages(Tail(pairs))

\* get_history_messages(session_id, limit_pairs)
GetHistoryMessages(session_id, limit_pairs) ==
    IF session_id = "" \/ session_id \notin DOMAIN store THEN <<>>
    ELSE Messages(LastPairs(store[session_id], LimitOr(limit_pairs)))

GetHistory ==
    \E session_id \in Sessions : \E limit_pairs \in LimitPairs :
        /\ last' = [op |-> "get_history_messages", session_id |-> session_id,
                    limit_pairs |-> limit_pairs,
                    ret |-> GetHistoryMessages(session_id, limit_pairs)]
        /\ UNCHANGED <<conf, mem, disk, crashes, ext>>

\* clear(session_id)
Clear ==
    \E session_id \in Sessions :
        /\ store' = [k \in DOMAIN store \ {session_id} |-> store[k]]
        /\ last' = [op |-> "clear", session_id |-> session_id]
        /\ UNCHANGED <<conf, mem, disk, crashes, env, instance, limiter,
                       chunker, stream>>

NextMemory ==
    \/ AddTurn
    \/ GetHistory
    \/ Clear

\* the chat memory under the calls of the routes
SpecMemory == AppStarted /\ [][NextMemory]_vars

----------------------------------------------------------------------------
(* C25 *)

\* the pairs a session holds in the store st
StoredIn(st, session_id) == IF session_id \in DOMAIN st THEN st[session_id] ELSE <<>>

Stored(session_id) == StoredIn(store, session_id)

\* C25: a session holds at most max_turns pairs, and after add_turn they are
\* the most recently added ones in the order they were added;
\* get_history_messages(session, limit_pairs = n) returns the messages of the
\* last min(n, stored) pairs, user before assistant; add_turn and clear on one
\* session leave the history of every other session as it was.
C25_SessionMemory ==
    /\ [](\A sid \in Sessions : Len(Stored(sid)) <= MaxTurns)
    /\ [](last.op = "get_history_messages" =>
            LET dq == Stored(last.session_id)
                n  == Min(last.limit_pairs, Len(dq))
            IN  last.ret = Messages(SubSeq(dq, Len(dq) - n + 1, Len(dq))))
    /\ [][(last'.op = "add_turn" /\ <<store, last>>' # <<store, last>>
             /\ last'.session_id # "") =>
            LET sid == last'.session_id
                all == Append(Stored(sid), last'.pair)
            IN  /\ StoredIn(store', sid) = SubSeq(all, Len(all) - Min(MaxTurns, Len(all)) + 1,
                                         Len(all))
                /\ \A other \in Sessions \ {sid} : StoredIn(store', other) = Stored(other)]_vars
    /\ [][(last'.op = "clear" /\ <<store, last>>' # <<store, last>>) =>
            /\ StoredIn(store', last'.session_id) = <<>>
            /\ \A other \in Sessions \ {last'.session_id} :
                    StoredIn(store', other) = Stored(other)]_vars

----------------------------------------------------------------------------
(* pdf_utils.chunk_text, one loop round per step.  A text is represented by
   its tokens (text.split()), a token by its position, a chunk by the tokens
   it joins. *)

\* the longest text explored, in tokens
MaxTokens == 3

\* chunk_size and overlap: /upload takes any int and passes it on
ChunkArgs == (0 - 1)..3

\* the chunks the memory of the process holds: a text of n tokens that is
\* chunked with a positive stride makes at most n of them, a loop that does
\* not advance fills the memory
MaxRounds == MaxTokens + 1

Max(a, b) == IF a >= b THEN a ELSE b

\* a start or stop of a Python slice, as an offset into a list of length n
SliceIndex(x, n) == IF x < 0 THEN Max(x + n, 0) ELSE Min(x, n)

\* seq[start:stop]
PySlice(seq, start, stop) ==
    SubSeq(seq, SliceIndex(start, Len(seq)) + 1, SliceIndex(stop, Len(seq)))

\* i += chunk_size - overlap
Stride(chunk_size, overlap) == chunk_size - overlap

\* chunk_text(text, chunk_size, overlap) is entered: if not text: return []
ChunkTextCalled(tokens, chunk_size, overlap) ==
    [pc |-> IF Len(tokens) = 0 THEN "done" ELSE "loop", tokens |-> tokens,
     chunk_size |-> chunk_size, overlap |-> overlap, i |-> 0, chunks |-> <<>>]

\* one test of the while condition: a round of the loop, or return chunks;
\* chunks.append raises MemoryError once the memory is full, and the call
\* ends without a result
ChunkTextStep ==
    /\ chunker.pc = "loop"
    /\ IF chunker.i < Len(chunker.tokens)
       THEN IF Len(chunker.chunks) < MaxRounds
            THEN chunker' =
                   [chunker EXCEPT
                      !.chunks = Append(@, PySlice(chunker.tokens, chunker.i,
                                                   chunker.i + chunker.chunk_size)),
                      !.i = @ + Stride(chunker.chunk_size, chunker.overlap)]
            ELSE chunker' = [chunker EXCEPT !.pc = "raised"]
       ELSE chunker' = [chunker EXCEPT !.pc = "done"]
    /\ UNCHANGED <<conf, mem, disk, crashes, env, instance, limiter, store,
                   stream, last>>

\* /upload has extracted a text and calls chunk_text with its query parameters
InitChunker ==
    /\ use_tfidf = TRUE
    /\ has_faiss = FALSE
    /\ has_sente = FALSE
    /\ fast_mode = FALSE
    /\ instance = "ready"
    /\ EmptyIndex
    /\ last = [op |-> "upload", ok |-> TRUE]
    /\ buckets = EmptyDict
    /\ now = 0
    /\ store = EmptyDict
    /\ stream = NoStream
    /\ \E n \in 0..MaxTokens : \E chunk_size \in ChunkArgs : \E overlap \in ChunkArgs :
            chunker = ChunkTextCalled([j \in 1..n |-> j], chunk_size, overlap)

NextChunker == ChunkTextStep

\* chunk_text running: the interpreter goes on to the next round
SpecChunker == InitChunker /\ [][NextChunker]_vars /\ WF_vars(ChunkTextStep)

----------------------------------------------------------------------------
(* C26 *)

\* the tokens of all chunks, in the order of the chunks
RECURSIVE Joined(_)
Joined(chunks) == IF Len(chunks) = 0 THEN <<>> ELSE chunks[1] \o Joined(Tail(chunks))

\* the chunks are windows of at most chunk_size tokens that cover the text in order
Covers(chunks, tokens, chunk_size) ==
    /\ \A c \in 1..Len(chunks) : Len(chunks[c]) <= chunk_size
    /\ \A t \in 1..Len(tokens) : \E c \in 1..Len(chunks) :
            \E p \in 1..Len(chunks[c]) : chunks[c][p] = tokens[t]
    /\ \A p \in 1..(Len(Joined(chunks)) - 1) :
            Joined(chunks)[p + 1] <= Joined(chunks)[p] + 1

\* C26: chunk_text terminates for every text and every chunk_size and overlap
\* /upload passes to it, and returns chunks of at most chunk_size tokens whose
\* windows together cover every token of the text in order.
C26_ChunkTextTerminates ==
    <>(/\ chunker.pc = "done"
       /\ Covers(chunker.chunks, chunker.tokens, chunker.chunk_size))

----------------------------------------------------------------------------
(* llm.stream_synthesize_answer: the loop over the deltas of the model, one
   delta per step (lines 304-324; the branch of the legacy client, lines
   336-354, is the same loop).  A string is the sequence of its characters. *)

\* the most deltas of one answer
MaxDeltas == 3

\* the deltas the model sends; the empty one is a chunk without content
Deltas ==
    { <<>>, <<"a">>, <<"[">>, <<"1">>, <<"]">>, <<"[", "1">>, <<"1", "]">>,
      <<"]", "[">>, <<"a", "[", "1", "]">> }

Digits == {"0", "1", "2", "3", "4", "5", "6", "7", "8", "9"}

\* "".join(parts)
RECURSIVE Concat(_)
Concat(parts) == IF Len(parts) = 0 THEN <<>> ELSE parts[1] \o Concat(Tail(parts))

\* str.rfind(ch): the 0-based place of the last ch, or -1
RFind(str, ch) ==
    LET at == { p \in 1..Len(str) : str[p] = ch }
    IN  IF at = {} THEN 0 - 1 ELSE (CHOOSE p \in at : \A r \in at : r <= p) - 1

\* a loop that never holds text back
HoldsBackNever(pending) == FALSE

\* last_open > last_close: a '[' without a ']' after it
HoldsBack(pending) == RFind(pending, "[") > RFind(pending, "]")

\* the generator is entered with the deltas the model will send
StreamCalled(deltas) ==
    [pc |-> "stream", input |-> deltas, deltas |-> deltas, pending |-> <<>>,
     yielded |-> <<>>]

\* the places where the generator is suspended with a chunk handed to its
\* consumer: 'yield safe_prefix', 'yield pending' in the loop, and the
\* 'yield pending' after it
Yields == {"yield safe_prefix", "yield pending", "yield rest"}

\* the generator runs from the top of 'for chunk in stream' to its next yield,
\* to the end of the round when the round yields nothing, or to its return
StreamStep ==
    /\ stream.pc = "stream"
    /\ IF Len(stream.deltas) = 0
       THEN \* if pending: yield pending
            IF Len(stream.pending) > 0
            THEN stream' = [stream EXCEPT !.pc = "yield rest",
                                          !.yielded = Append(@, stream.pending)]
            ELSE stream' = [stream EXCEPT !.pc = "done"]
       ELSE LET delta     == Head(stream.deltas)
                pending   == stream.pending \o delta
                last_open == RFind(pending, "[")
            IN  IF Len(delta) = 0
                THEN stream' = [stream EXCEPT !.deltas = Tail(@)]
                ELSE IF HoldsBack(pending)
                THEN IF last_open > 0
                     THEN stream' = [stream EXCEPT
                                       !.pc = "yield safe_prefix",
                                       !.deltas = Tail(@),
                                       !.yielded = Append(@, SubSeq(pending, 1, last_open)),
                                       !.pending = pending]
                     ELSE stream' = [stream EXCEPT !.deltas = Tail(@),
                                                   !.pending = pending]
                ELSE stream' = [stream EXCEPT !.pc = "yield pending",
                                              !.deltas = Tail(@),
                                              !.yielded = Append(@, pending),
                                              !.pending = pending]
    /\ UNCHANGED <<conf, mem, disk, crashes, env, instance, limiter, store,
                   chunker, last>>

\* the consumer asks for the next chunk: the statement after the yield runs
StreamResume ==
    /\ stream.pc \in Yields
    /\ stream' =
         IF stream.pc = "yield safe_prefix"
         THEN \* pending = pending[last_open:]
              [stream EXCEPT !.pc = "stream",
                             !.pending = SubSeq(@, RFind(@, "[") + 1, Len(@))]
         ELSE IF stream.pc = "yield pending"
         THEN \* pending = ""
              [stream EXCEPT !.pc = "stream", !.pending = <<>>]
         ELSE \* return
              [stream EXCEPT !.pc = "done"]
    /\ UNCHANGED <<conf, mem, disk, crashes, env, instance, limiter, store,
                   chunker, last>>

\* the consumer closes the generator where it is suspended (the client of
\* /query_stream has gone): GeneratorExit is no Exception, nothing after the
\* yield runs
StreamClose ==
    /\ stream.pc \in Yields
    /\ stream' = [stream EXCEPT !.pc = "closed"]
    /\ UNCHANGED <<conf, mem, disk, crashes, env, instance, limiter, store,
                   chunker, last>>

\* what /query_stream takes from the bucket of its caller
StreamCost == 10

\* /query_stream has charged its caller, retrieved its context and iterates
\* the generator
InitStream ==
    /\ use_tfidf = TRUE
    /\ has_faiss = FALSE
    /\ has_sente = FALSE
    /\ fast_mode = FALSE
    /\ instance = "ready"
    /\ EmptyIndex
    /\ last = [op |-> "query_stream", ok |-> TRUE]
    /\ now = 0
    /\ \E ip \in IPs :
            buckets = [a \in {ip} |-> Bucket(Full - StreamCost * TicksPerSecond, now)]
    /\ store = EmptyDict
    /\ chunker = NoChunker
    /\ \E n \in 0..MaxDeltas : \E deltas \in [1..n -> Deltas] :
            stream = StreamCalled(deltas)

NextStream == StreamStep \/ StreamResume \/ StreamClose

\* one streamed answer
SpecStream == InitStream /\ [][NextStream]_vars

----------------------------------------------------------------------------
(* C27 *)

\* the places of text after which one of the chunks ends and another begins
Cuts(chunks) ==
    { Len(Concat(SubSeq(chunks, 1, n))) : n \in 1..(Len(chunks) - 1) }

\* text[p..q] is a citation marker: '[', one or more digits, ']'
IsMarker(text, p, q) ==
    /\ q > p + 1
    /\ text[p] = "["
    /\ text[q] = "]"
    /\ \A r \in (p + 1)..(q - 1) : text[r] \in Digits

\* no marker of the text formed by the chunks lies across a cut
NoMarkerSplit(chunks) ==
    LET text == Concat(chunks)
    IN  \A p \in 1..Len(text) : \A q \in p..Len(text) :
            IsMarker(text, p, q) => \A c \in Cuts(chunks) : ~(p <= c /\ c < q)

\* short is the beginning of long
IsPrefix(short, long) ==
    Len(short) <= Len(long) /\ SubSeq(long, 1, Len(short)) = short

\* C27: for every sequence of model deltas the yielded chunks, concatenated,
\* are the non-empty deltas concatenated (nothing lost, nothing reordered), and
\* no citation marker '[' digits ']' is split across two yielded chunks.  While
\* the stream runs, and in a stream its consumer has closed, the chunks are the
\* beginning of that text; between two rounds they and the text held back are
\* the deltas received.
C27_StreamIntact ==
    /\ stream.pc = "done" => Concat(stream.yielded) = Concat(stream.input)
    /\ NoMarkerSplit(stream.yielded)
    /\ IsPrefix(Concat(stream.yielded), Concat(stream.input))
    /\ stream.pc = "stream" =>
            Concat(stream.yielded) \o stream.pending
              = Concat(SubSeq(stream.input, 1, Len(stream.input) - Len(stream.deltas)))

\* an answer is complete whose deltas split a marker, and the chunks do not
C27_Witness ==
    /\ stream.pc = "done"
    /\ Len(stream.yielded) >= 2
    /\ ~NoMarkerSplit(stream.input)
    /\ \E n \in 1..Len(stream.input) : Len(stream.input[n]) = 0

====
